---- MODULE Spec2Model ----
(***************************************************************************)
(* Verification model of gabrielWYP/sentiment_elections_dev.               *)
(*                                                                         *)
(*   SpecExtract     YouTubeScraper.extract_comments: the caller, the      *)
(*                   background thread and the wall clock of one call.     *)
(*   SpecExtractLive the same with the fairness of the caller's thread     *)
(*                   and of time.                                          *)
(*   SpecClient      SentimentServiceClient: health cache, remote          *)
(*                   dispatch and local fallback, one caller at a time.    *)
(*   SpecClientShared  the same client shared by two concurrent callers.   *)
(*   SpecSearch      YouTubeScraper.search_videos.                         *)
(*   SpecScrape      YouTubeScraper.scrape_search_results.                 *)
(*   SpecText        CommentProcessor.clean_text and validate_comment.     *)
(*   SpecStatistics  SentimentAnalyzer.get_statistics.                     *)
(*   SpecBatch       the result dict of analyze_sentiment, from the remote *)
(*                   service and from the local analyzer, text by text.    *)
(***************************************************************************)
EXTENDS Integers, Sequences, FiniteSets, TLC

VARIABLES
    \* ---- YouTubeScraper.extract_comments ----
    source,            \* what get_comments_from_url emits before it ends (item kinds)
    max_comments,      \* self.max_comments
    result_container,  \* {'comments': [...], 'completed': bool}
    thread_pc,         \* position of extract_comments_thread
    pos,               \* number of items the thread has taken from the source
    comment_count,     \* local of the thread
    filtered_count,    \* local of the thread
    caller_pc,         \* position of extract_comments
    returned,          \* the reference extract_comments handed to its caller
    elapsed,           \* wall-clock seconds the caller has spent in the call
    flagged_at,        \* the buffer length and the items taken when line 257 ran
    \* ---- SentimentServiceClient ----
    fallback_to_local, \* self.fallback_to_local
    is_healthy,        \* self.is_healthy
    last_health_check, \* self.last_health_check: <<>> for None, <<t>> for a datetime
    now,               \* datetime.now(), in seconds
    client_pc,         \* position of each caller's analyze_sentiment coroutine
    call,              \* per caller: the batch, what the call has sent and received
    result,            \* per caller: how the call ended and the dict it returned
    calls_made,        \* number of analyze_sentiment calls started
    advances,          \* number of times the clock has been moved
    last_probe,        \* history: when the last GET /health ended, <<>> or <<t>>
    \* ---- YouTubeScraper.search_videos ----
    info_kind,         \* what ydl.extract_info does: "entries", "no_entries", "raises"
    entries,           \* info['entries'], as far as it can be enumerated
    enum_fails,        \* the enumeration raises after the last of these entries
    hours_back,        \* the hours_back argument
    search_now,        \* datetime.now() during the call, in hours
    videos,            \* the local list videos
    entry_idx,         \* number of entries the loop has taken
    search_pc,         \* position of search_videos
    found,             \* what search_videos returned
    \* ---- YouTubeScraper.scrape_search_results ----
    searched,          \* the list search_videos hands to scrape_search_results
    max_videos,        \* the max_videos argument
    max_comments_per_video,  \* the max_comments_per_video argument
    stats,             \* the ScraperStats of the run
    all_comments,      \* the local list all_comments
    video_idx,         \* number of videos the loop has taken
    scrape_pc,         \* position of scrape_search_results
    scrape_now,        \* datetime.now() during the run
    scrape_result,     \* the comment list handed back to the caller
    end_time_writes,   \* history: number of assignments to stats.end_time
    started,           \* history: video_ids for which extract_comments was called
    \* ---- CommentProcessor.clean_text / validate_comment ----
    input_text,        \* the text argument
    input_language,    \* the language argument
    text_pc,           \* which calls have been made
    cleaned_once,      \* clean_text(text)
    cleaned_twice,     \* clean_text(clean_text(text))
    validated,         \* validate_comment(text, language)
    \* ---- SentimentAnalyzer.get_statistics ----
    input_results,     \* the results argument
    statistics,        \* what get_statistics returned
    statistics_pc,     \* position of get_statistics
    \* ---- the result dict of analyze_sentiment ----
    input_texts,       \* the texts argument
    input_simplified,  \* the use_simplified argument
    batch_pc,          \* position of analyze_sentiment
    batch_result       \* the dict it returned

extractVars == <<source, max_comments, result_container, thread_pc, pos,
                 comment_count, filtered_count, caller_pc, returned, elapsed, flagged_at>>
clientVars == <<fallback_to_local, is_healthy, last_health_check, now, client_pc,
                call, result, calls_made, advances, last_probe>>
searchVars == <<info_kind, entries, enum_fails, hours_back, search_now, videos,
                entry_idx, search_pc, found>>
scrapeVars == <<searched, max_videos, max_comments_per_video, stats, all_comments, video_idx, scrape_pc,
                scrape_now, scrape_result, end_time_writes, started>>
textVars == <<input_text, input_language, text_pc, cleaned_once, cleaned_twice, validated>>
statisticsVars == <<input_results, statistics, statistics_pc>>
batchVars == <<input_texts, input_simplified, batch_pc, batch_result>>
outsideExtract == <<clientVars, searchVars, scrapeVars, textVars, statisticsVars, batchVars>>
outsideClient == <<extractVars, searchVars, scrapeVars, textVars, statisticsVars, batchVars>>
outsideSearch == <<extractVars, clientVars, scrapeVars, textVars, statisticsVars, batchVars>>
outsideScrape == <<extractVars, clientVars, searchVars, textVars, statisticsVars, batchVars>>
outsideText == <<extractVars, clientVars, searchVars, scrapeVars, statisticsVars, batchVars>>
outsideBatch == <<extractVars, clientVars, searchVars, scrapeVars, textVars, statisticsVars>>
outsideStatistics == <<extractVars, clientVars, searchVars, scrapeVars, textVars, batchVars>>
vars == <<extractVars, clientVars, searchVars, scrapeVars, textVars, statisticsVars,
          batchVars>>

None == "None"

Min(a, b) == IF a <= b THEN a ELSE b

\* ---- bounds of the model ----
MaxSource == 3
MaxMaxComments == 2
TickSeconds == 15
MaxElapsed == 60
MaxBatch == 2
MaxCalls == 3
MaxAdvances == 3

(***************************************************************************)
(* CommentProcessor (comment_processor.py).  A text is a sequence of       *)
(* one-character strings.                                                  *)
(***************************************************************************)
Letters == {"a", "h", "l", "o", "p", "s", "t", "w"}
Digits == {"1", "2", "3"}
\* re's \s for str patterns: space, \t, \n, ...
Whitespace == {" ", "\t", "\n"}
\* a code point of the REMOVE_EMOJIS ranges
Emojis == {"E"}
\* a control character below 32 that \s does not match (here \x01)
Controls == {"^"}

MIN_LENGTH == 5
MAX_LENGTH == 5000

IsPrefixAt(s, i, p) ==
    /\ i + Len(p) - 1 <= Len(s)
    /\ \A k \in 1..Len(p) : s[i + k - 1] = p[k]

\* length of the run of \S characters of s that starts at i
RECURSIVE NonSpaceRun(_, _)
NonSpaceRun(s, i) ==
    IF i > Len(s) \/ s[i] \in Whitespace THEN 0 ELSE 1 + NonSpaceRun(s, i + 1)

\* length of the match of  http\S+|www.\S+  at i, 0 when it does not match there
UrlMatchAt(s, i) ==
    IF IsPrefixAt(s, i, <<"h", "t", "t", "p">>) /\ NonSpaceRun(s, i + 4) > 0
    THEN 4 + NonSpaceRun(s, i + 4)
    ELSE IF /\ IsPrefixAt(s, i, <<"w", "w", "w">>)
            /\ i + 3 <= Len(s)
            /\ s[i + 3] # "\n"
            /\ NonSpaceRun(s, i + 4) > 0
         THEN 4 + NonSpaceRun(s, i + 4)
         ELSE 0

\* the positions from i on where the pattern matches
UrlStartsFrom(s, i) == {j \in i..Len(s) : UrlMatchAt(s, j) > 0}

\* REMOVE_URLS.sub('', text): leftmost matches, left to right; the scan
\* copies the text up to the next match and goes on behind that match
RECURSIVE RemoveUrlsFrom(_, _)
RemoveUrlsFrom(s, i) ==
    IF UrlStartsFrom(s, i) = {} THEN SubSeq(s, i, Len(s))
    ELSE LET j == CHOOSE m \in UrlStartsFrom(s, i) :
                      \A k \in UrlStartsFrom(s, i) : m <= k
         IN  SubSeq(s, i, j - 1) \o RemoveUrlsFrom(s, j + UrlMatchAt(s, j))

RemoveUrls(s) == RemoveUrlsFrom(s, 1)

\* REMOVE_EMOJIS.sub('', text)
RemoveEmojis(s) == SelectSeq(s, LAMBDA c : c \notin Emojis)

\* re.sub(r'\s+', ' ', text): every whitespace run becomes one space (the
\* first character of the run becomes the space, the others go)
CollapseFrom(s, i) ==
    LET marked == [k \in 1..(Len(s) - i + 1) |->
                     LET m == k + i - 1
                     IN  IF s[m] \notin Whitespace THEN s[m]
                         ELSE IF m > 1 /\ s[m - 1] \in Whitespace THEN "dropped"
                         ELSE " "]
    IN  SelectSeq(marked, LAMBDA c : c # "dropped")

\* str.strip()
RECURSIVE LStrip(_)
LStrip(s) == IF s # <<>> /\ Head(s) \in Whitespace THEN LStrip(Tail(s)) ELSE s

RECURSIVE RStrip(_)
RStrip(s) ==
    IF s # <<>> /\ s[Len(s)] \in Whitespace THEN RStrip(SubSeq(s, 1, Len(s) - 1)) ELSE s

NormalizeSpaces(s) == RStrip(LStrip(CollapseFrom(s, 1)))

\* ''.join(char for char in text if ord(char) >= 32 or char in '\n\t')
RemoveControl(s) == SelectSeq(s, LAMBDA c : c \notin Controls)

clean_text(text) == RemoveControl(NormalizeSpaces(RemoveEmojis(RemoveUrls(text))))

\* re.search(r'[a-záéíóúñ]', cleaned.lower())
HasLetter(s) == \E i \in 1..Len(s) : s[i] \in Letters

\* line 101: if language and language != "es"
WrongLanguage(language) == language \notin {None, "", "es"}

\* validate_comment without the test of line 94
validate_comment_any_length(text, language) ==
    LET cleaned == clean_text(text)
        cut == IF Len(cleaned) > MAX_LENGTH THEN SubSeq(cleaned, 1, MAX_LENGTH) ELSE cleaned
    IN  IF WrongLanguage(language) THEN <<FALSE, None>>
        ELSE IF ~HasLetter(cut) THEN <<FALSE, None>>
        ELSE <<TRUE, cut>>

\* validate_comment without the cut of lines 97-98
validate_comment_uncut(text, language) ==
    LET cleaned == clean_text(text)
    IN  IF Len(cleaned) < MIN_LENGTH THEN <<FALSE, None>>
        ELSE IF WrongLanguage(language) THEN <<FALSE, None>>
        ELSE IF ~HasLetter(cleaned) THEN <<FALSE, None>>
        ELSE <<TRUE, cleaned>>

\* validate_comment(text, language) -> <<is_valid, cleaned_text>>
validate_comment(text, language) ==
    LET cleaned == clean_text(text)
        cut == IF Len(cleaned) > MAX_LENGTH THEN SubSeq(cleaned, 1, MAX_LENGTH) ELSE cleaned
    IN  IF Len(cleaned) < MIN_LENGTH THEN <<FALSE, None>>
        ELSE IF WrongLanguage(language) THEN <<FALSE, None>>
        ELSE IF ~HasLetter(cut) THEN <<FALSE, None>>
        ELSE <<TRUE, cut>>

\* detect_language(text): langdetect's answer, "unknown" when detect raises
detect_language(detected) == IF detected = "raise" THEN "unknown" ELSE detected


(***************************************************************************)
(* The extraction source (youtube_comment_downloader).  The source emits   *)
(* the records of `source`, one per next(), and then ends: it stops, it    *)
(* raises, or it never answers.  Item i is posted from channel i.          *)
(***************************************************************************)
TextGood == <<"h", "o", "l", "a", " ", "E", "a">>
TextShort == <<"s", "o", "l">>

ItemKinds == {"es_ok", "en", "undetected", "es_short", "malformed", "bad_votes", "no_cid"}

\* the raw_comment the source yields as its i-th item
RawComment(kind, i) ==
    [ is_dict    |-> kind # "malformed",
      has_cid    |-> kind # "no_cid",
      cid        |-> i,
      text       |-> IF kind = "es_short" THEN TextShort ELSE TextGood,
      detected   |-> CASE kind = "en" -> "en"
                       [] kind = "undetected" -> "raise"
                       [] OTHER -> "es",
      channel_id |-> i,
      votes      |-> CASE kind = "bad_votes" -> "1.2K"
                       [] kind = "es_ok" -> "3"
                       [] OTHER -> "" ]

\* int(votes): the value, or a ValueError
ParseInt(votes) ==
    CASE votes = "3" -> [raises |-> FALSE, value |-> 3]
      [] votes = "0" -> [raises |-> FALSE, value |-> 0]
      [] OTHER -> [raises |-> TRUE, value |-> 0]

(***************************************************************************)
(* extract_comments_thread, lines 165-247                                  *)
(***************************************************************************)
\* line 176: if comment_count >= self.max_comments
ReachedLimitOffByOne(count, max) == count > max
ReachedLimit(count, max) == count >= max

\* line 190: if language != 'es' -> discard
LanguageAcceptedAny(language) == TRUE
LanguageAccepted(language) == language = "es"

\* line 217: raw_comment.get('cid', f"unknown_{comment_count}"), the default
FallbackIdConstant(count) == <<"unknown", 0>>
FallbackId(count) == <<"unknown", count>>

\* line 180: if result_container['completed']
FlagNeverSeen(container) == FALSE
FlagSeen(container) == container.completed

\* line 230: result_container['comments'].append(comment)
BufferPrepend(buffer, comment) == <<comment>> \o buffer
BufferAppend(buffer, comment) == Append(buffer, comment)

\* lines 237-239: except Exception inside the loop -> continue (next item)
ItemHandlerPropagates == "failed"
ItemHandler == "line175"

\* lines 183-231 with the language test of line 190 gone and validate_comment
\* called without a language
ProcessItemUnfiltered(raw, count) ==
    IF ~raw.is_dict THEN [outcome |-> "error"]
    ELSE LET language == detect_language(raw.detected)
             v == validate_comment(raw.text, None)
         IN  IF ~v[1] THEN [outcome |-> "filtered"]
             ELSE IF raw.votes # "" /\ ParseInt(raw.votes).raises
                  THEN [outcome |-> "error"]
             ELSE [ outcome |-> "admitted",
                    comment |-> [ comment_id |-> IF raw.has_cid
                                                 THEN <<"cid", raw.cid>>
                                                 ELSE FallbackId(count),
                                  text       |-> v[2],
                                  author_id  |-> raw.channel_id,
                                  likes      |-> IF raw.votes # ""
                                                 THEN ParseInt(raw.votes).value ELSE 0,
                                  language   |-> language ] ]

\* lines 183-231 on one raw_comment: what happens to it
ProcessItem(raw, count) ==
    IF ~raw.is_dict THEN [outcome |-> "error"]              \* raw_comment.get raises
    ELSE LET language == detect_language(raw.detected)
             v == validate_comment(raw.text, language)
         IN  IF ~LanguageAccepted(language) THEN [outcome |-> "filtered"]
             ELSE IF ~v[1] THEN [outcome |-> "filtered"]
             ELSE IF raw.votes # "" /\ ParseInt(raw.votes).raises
                  THEN [outcome |-> "error"]                \* int(...) raises
             ELSE [ outcome |-> "admitted",
                    comment |-> [ comment_id |-> IF raw.has_cid
                                                 THEN <<"cid", raw.cid>>
                                                 ELSE FallbackId(count),
                                  text       |-> v[2],
                                  author_id  |-> raw.channel_id,
                                  likes      |-> IF raw.votes # ""
                                                 THEN ParseInt(raw.votes).value ELSE 0,
                                  language   |-> language ] ]

\* "finished": the loop was left and line 241 reached; "failed": the outer
\* except of line 246 caught an exception.  Either way the thread has ended.
ThreadAlive == thread_pc \notin {"unstarted", "finished", "failed"}

\* line 168: YoutubeCommentDownloader() is built, or raises (outer except, line 246)
ThreadBegin ==
    /\ thread_pc = "line168"
    /\ thread_pc' \in {"line175", "failed"}
    /\ UNCHANGED <<source, max_comments, flagged_at, result_container, pos, comment_count,
                   filtered_count, caller_pc, returned, elapsed, outsideExtract>>

\* line 175: the source yields its next item; line 176-178: break at the limit
ThreadPull ==
    /\ thread_pc = "line175"
    /\ pos < Len(source)
    /\ pos' = pos + 1
    /\ thread_pc' = IF ReachedLimit(comment_count, max_comments)
                    THEN "finished" ELSE "line180"
    /\ UNCHANGED <<source, max_comments, flagged_at, result_container, comment_count,
                   filtered_count, caller_pc, returned, elapsed, outsideExtract>>

\* line 175: the source is exhausted (StopIteration): the loop ends
SourceStops ==
    /\ thread_pc = "line175"
    /\ pos = Len(source)
    /\ thread_pc' = "finished"
    /\ UNCHANGED <<source, max_comments, flagged_at, result_container, pos, comment_count,
                   filtered_count, caller_pc, returned, elapsed, outsideExtract>>

\* line 175: the source raises while iterating: outer except (line 246)
SourceRaises ==
    /\ thread_pc = "line175"
    /\ pos = Len(source)
    /\ thread_pc' = "failed"
    /\ UNCHANGED <<source, max_comments, flagged_at, result_container, pos, comment_count,
                   filtered_count, caller_pc, returned, elapsed, outsideExtract>>

\* line 175: the source never answers: the thread stays blocked in next()
SourceHangs ==
    /\ thread_pc = "line175"
    /\ pos = Len(source)
    /\ thread_pc' = "blocked"
    /\ UNCHANGED <<source, max_comments, flagged_at, result_container, pos, comment_count,
                   filtered_count, caller_pc, returned, elapsed, outsideExtract>>

\* lines 180-181: if result_container['completed']: break
ThreadCheckFlag ==
    /\ thread_pc = "line180"
    /\ thread_pc' = IF FlagSeen(result_container) THEN "finished" ELSE "line183"
    /\ UNCHANGED <<source, max_comments, flagged_at, result_container, pos, comment_count,
                   filtered_count, caller_pc, returned, elapsed, outsideExtract>>

\* lines 183-239: the item is discarded, admitted, or its processing raises
ThreadProcess ==
    /\ thread_pc = "line183"
    /\ LET r == ProcessItem(RawComment(source[pos], pos), comment_count)
       IN  CASE r.outcome = "filtered" ->
                  /\ filtered_count' = filtered_count + 1
                  /\ thread_pc' = "line175"
                  /\ UNCHANGED <<result_container, comment_count>>
             [] r.outcome = "admitted" ->
                  /\ result_container' =
                        [result_container EXCEPT
                            !.comments = BufferAppend(result_container.comments, r.comment)]
                  /\ comment_count' = comment_count + 1
                  /\ thread_pc' = "line175"
                  /\ UNCHANGED filtered_count
             [] OTHER ->
                  /\ thread_pc' = ItemHandler
                  /\ UNCHANGED <<result_container, comment_count, filtered_count>>
    /\ UNCHANGED <<source, max_comments, flagged_at, pos, caller_pc, returned, elapsed, outsideExtract>>

Thread ==
    \/ ThreadBegin
    \/ ThreadPull
    \/ SourceStops
    \/ SourceRaises
    \/ SourceHangs
    \/ ThreadCheckFlag
    \/ ThreadProcess

(***************************************************************************)
(* extract_comments, lines 249-263                                         *)
(***************************************************************************)
\* line 253: thread.join(timeout=45)
JoinTimeoutLate == 45 + 15
JoinTimeout == 45

\* lines 260-261: except Exception around the thread management -> line 263
CallerHandlerPropagates == "raised"
CallerHandler == "line263"

\* line 263: return result_container['comments'] (the list itself, not a copy)
ReturnLocalComments == "comments"
ReturnValue == "result_container.comments"

\* the list a reference denotes now ('comments' of line 159 is never written)
Deref(ref) ==
    CASE ref = "result_container.comments" -> result_container.comments
      [] ref = "comments" -> <<>>
      [] OTHER -> <<>>

\* lines 251-252: the thread is created and started, or start() raises
CallerStart ==
    /\ caller_pc = "line251"
    /\ \/ /\ thread_pc' = "line168"
          /\ caller_pc' = "line253"
       \/ /\ caller_pc' = CallerHandler
          /\ UNCHANGED thread_pc
    /\ UNCHANGED <<source, max_comments, flagged_at, result_container, pos, comment_count,
                   filtered_count, returned, elapsed, outsideExtract>>

\* line 253: join returns because the thread has ended
CallerJoinEnded ==
    /\ caller_pc = "line253"
    /\ ~ThreadAlive
    /\ caller_pc' = "line255"
    /\ UNCHANGED <<source, max_comments, flagged_at, result_container, thread_pc, pos,
                   comment_count, filtered_count, returned, elapsed, outsideExtract>>

\* line 253: join returns because the timeout has expired
CallerJoinTimeout ==
    /\ caller_pc = "line253"
    /\ elapsed >= JoinTimeout
    /\ caller_pc' = "line255"
    /\ UNCHANGED <<source, max_comments, flagged_at, result_container, thread_pc, pos,
                   comment_count, filtered_count, returned, elapsed, outsideExtract>>

\* line 255: if thread.is_alive()
CallerIsAlive ==
    /\ caller_pc = "line255"
    /\ caller_pc' = IF ThreadAlive THEN "line257" ELSE "line263"
    /\ UNCHANGED <<source, max_comments, flagged_at, result_container, thread_pc, pos,
                   comment_count, filtered_count, returned, elapsed, outsideExtract>>

\* line 257: result_container['completed'] = True
CallerSetCompleted ==
    /\ caller_pc = "line257"
    /\ result_container' = [result_container EXCEPT !.completed = TRUE]
    /\ flagged_at' = <<[len |-> Len(result_container.comments), pos |-> pos]>>
    /\ caller_pc' = "line263"
    /\ UNCHANGED <<source, max_comments, thread_pc, pos, comment_count,
                   filtered_count, returned, elapsed, outsideExtract>>

\* line 263: return
CallerReturn ==
    /\ caller_pc = "line263"
    /\ returned' = ReturnValue
    /\ caller_pc' = "returned"
    /\ UNCHANGED <<source, max_comments, flagged_at, result_container, thread_pc, pos,
                   comment_count, filtered_count, elapsed, outsideExtract>>

Caller ==
    \/ CallerStart
    \/ CallerJoinEnded
    \/ CallerJoinTimeout
    \/ CallerIsAlive
    \/ CallerSetCompleted
    \/ CallerReturn

\* Wall-clock time passes while the caller waits in join; it cannot pass the
\* expiry of the join timer without the timer firing.
Tick ==
    /\ caller_pc = "line253"
    /\ elapsed < JoinTimeout
    /\ elapsed < MaxElapsed
    /\ elapsed' = Min(elapsed + TickSeconds, JoinTimeout)
    /\ UNCHANGED <<source, max_comments, flagged_at, result_container, thread_pc, pos,
                   comment_count, filtered_count, caller_pc, returned, outsideExtract>>

RECURSIVE SeqsUpTo(_, _)
SeqsUpTo(S, n) ==
    IF n = 0 THEN {<<>>}
    ELSE LET shorter == SeqsUpTo(S, n - 1)
         IN  shorter \cup {Append(q, x) : q \in {r \in shorter : Len(r) = n - 1}, x \in S}

Callers == {1, 2}

NoCall == [texts |-> 0, probes |-> 0, posts |-> 0, locals |-> 0,
           post_reply |-> "none", cached_on_entry |-> FALSE, healthy_on_entry |-> FALSE,
           fallbacks |-> 0, fallback_texts |-> 0, local_cond |-> "none"]
NoResult == [status |-> "none", service |-> "none", outcomes |-> 0]

\* ScraperStats(start_time=t), models.py lines 68-81
NewStats(t) ==
    [start_time |-> t, end_time |-> <<>>, videos_found |-> 0, videos_processed |-> 0,
     comments_extracted |-> 0, comments_filtered |-> 0, errors |-> <<>>]

\* no scraping run is going on
ScrapeIdle ==
    /\ searched = <<>>
    /\ max_videos = 0
    /\ max_comments_per_video = 0
    /\ stats = NewStats(0)
    /\ all_comments = <<>>
    /\ video_idx = 0
    /\ scrape_pc = "line265"
    /\ scrape_now = 0
    /\ scrape_result = <<>>
    /\ end_time_writes = 0
    /\ started = <<>>

\* no text is being cleaned or validated
TextIdle ==
    /\ input_text = <<>>
    /\ input_language = None
    /\ text_pc = "start"
    /\ cleaned_once = <<>>
    /\ cleaned_twice = <<>>
    /\ validated = <<FALSE, None>>

\* get_statistics, lines 256 and 262: return {}.  A dict is written as a
\* record with a flag for the empty dict; an average is the pair of the sum
\* and the number of terms, a percentage the pair of 100 * count and total.
EmptyStatistics ==
    [raised |-> FALSE, empty |-> TRUE, total |-> 0,
     positive_count |-> 0, negative_count |-> 0, neutral_count |-> 0,
     positive_pct |-> <<0, 1>>, negative_pct |-> <<0, 1>>, neutral_pct |-> <<0, 1>>,
     avg_score |-> <<0, 1>>, avg_confidence |-> <<0, 1>>]

\* no statistics are being computed
StatisticsIdle ==
    /\ input_results = <<>>
    /\ statistics = EmptyStatistics
    /\ statistics_pc = "line235"

\* the dict analyze_sentiment has not returned
NoBatchResult ==
    [status |-> "none", service |-> "none", sentiments |-> <<>>, scores |-> <<>>,
     confidences |-> <<>>]

\* no batch is being analysed
BatchIdle ==
    /\ input_texts = <<>>
    /\ input_simplified = TRUE
    /\ batch_pc = "line83"
    /\ batch_result = NoBatchResult

\* everything but the extraction, the client and the search is at rest
OthersIdle == ScrapeIdle /\ TextIdle /\ StatisticsIdle /\ BatchIdle

\* no search is going on
SearchIdle ==
    /\ info_kind = "entries"
    /\ entries = <<>>
    /\ enum_fails = FALSE
    /\ hours_back = 24
    /\ search_now = 0
    /\ videos = <<>>
    /\ entry_idx = 0
    /\ search_pc = "line61"
    /\ found = <<>>

\* SentimentServiceClient.__init__, lines 17-37, with no call in progress
ClientIdle ==
    /\ fallback_to_local = TRUE
    /\ is_healthy = FALSE
    /\ last_health_check = <<>>
    /\ now = 0
    /\ client_pc = [c \in Callers |-> "idle"]
    /\ call = [c \in Callers |-> NoCall]
    /\ result = [c \in Callers |-> NoResult]
    /\ calls_made = 0
    /\ advances = 0
    /\ last_probe = <<>>

InitExtract ==
    /\ source \in SeqsUpTo(ItemKinds, MaxSource)
    /\ max_comments \in 0..MaxMaxComments
    /\ result_container = [comments |-> <<>>, completed |-> FALSE]
    /\ thread_pc = "unstarted"
    /\ pos = 0
    /\ comment_count = 0
    /\ filtered_count = 0
    /\ caller_pc = "line251"
    /\ returned = None
    /\ elapsed = 0
    /\ flagged_at = <<>>
    /\ ClientIdle
    /\ SearchIdle
    /\ OthersIdle

NextExtract == Thread \/ Caller \/ Tick

SpecExtract == InitExtract /\ [][NextExtract]_vars

\* The caller's own thread keeps running and time keeps passing; nothing is
\* assumed of the background thread or of the source.
SpecExtractLive == SpecExtract /\ WF_vars(Caller) /\ WF_vars(Tick)


(***************************************************************************)
(* Properties of extract_comments                                          *)
(***************************************************************************)
Buffer == result_container.comments

\* the kinds of item that pass the language filter and the validation and
\* whose fields convert
AdmissibleKinds == {"es_ok", "no_cid"}
ErrorKinds == {"malformed", "bad_votes"}

\* the positions of the admissible items of src, in emission order
RECURSIVE AdmissibleIndicesUpTo(_, _)
AdmissibleIndicesUpTo(src, n) ==
    IF n = 0 THEN <<>>
    ELSE IF src[n] \in AdmissibleKinds
         THEN Append(AdmissibleIndicesUpTo(src, n - 1), n)
         ELSE AdmissibleIndicesUpTo(src, n - 1)

AdmissibleIndices(src) == AdmissibleIndicesUpTo(src, Len(src))

\* the source positions of the comments of a list (item i comes from channel i)
Origins(list) == [k \in 1..Len(list) |-> list[k].author_id]

IsPrefixOf(a, b) == Len(a) <= Len(b) /\ a = SubSeq(b, 1, Len(a))

Take(q, n) == SubSeq(q, 1, Min(n, Len(q)))

C2_ReturnedListFrozen ==
    [][(caller_pc = "returned" /\ result_container.completed)
          => Deref(returned)' = Deref(returned)]_vars

\* C3 (as claimed): the buffer never holds more than max_comments items and
\* the thread takes nothing more from the source once max_comments items are
\* admitted.
C3_StopsConsumingAtLimit ==
    /\ [](Len(Buffer) <= max_comments)
    /\ [][comment_count >= max_comments => pos' = pos]_vars

\* C3 (what the code does): the buffer, and so the returned list, never holds
\* more than max_comments items; once max_comments items are admitted the
\* thread takes at most one more item from the source, and that item ends the
\* thread without being processed.
C3_AtMostOneMoreItem ==
    /\ [](/\ comment_count = Len(Buffer)
          /\ Len(Buffer) <= max_comments
          /\ Len(Deref(returned)) <= max_comments)
    /\ [][(comment_count >= max_comments /\ pos' # pos)
            => (thread_pc' = "finished" /\ Buffer' = Buffer)]_vars
    /\ [][thread_pc = "finished" => (pos' = pos /\ Buffer' = Buffer)]_vars

\* C3 (what the code does), its case: two items admitted at a limit of two, a third item taken from
\* the source and dropped at the limit check, the list returned.
C3_Witness ==
    /\ max_comments = 2
    /\ source = <<"es_ok", "es_ok", "es_ok">>
    /\ pos = 3
    /\ thread_pc = "finished"
    /\ caller_pc = "returned"
    /\ Len(Deref(returned)) = 2

\* C4: every Comment in the result buffer has language 'es'.
C4_BufferOnlySpanish ==
    \A k \in 1..Len(Buffer) : Buffer[k].language = "es"

\* C4 witness: an English item and an undetectable one were taken and
\* discarded, a Spanish one was admitted.
C4_Witness ==
    /\ Len(Buffer) >= 1
    /\ \E i, j \in 1..pos : source[i] = "en" /\ source[j] = "undetected"
    /\ thread_pc = "finished"

\* C5: extract_comments never raises; it ends by returning a list.
C5_NeverRaises ==
    /\ caller_pc # "raised"
    /\ caller_pc = "returned" => returned \in {"result_container.comments", "comments"}

\* C5 witness: thread.start() raised and the call returned all the same.
C5_Witness ==
    /\ caller_pc = "returned"
    /\ thread_pc = "unstarted"
    /\ Deref(returned) = <<>>

\* the thread is past item j: it processed it, or left the loop on it
PastItem(j) ==
    \/ j < pos
    \/ j = pos /\ thread_pc \in {"line175", "blocked", "failed"}
    \/ j = pos /\ thread_pc = "finished" /\ ~result_container.completed

\* C6: an item whose processing raises is skipped and nothing else: the thread
\* goes on to the next item, and every admissible item behind it that the
\* thread is past, and that the limit leaves room for, is in the buffer.
C6_BadItemOnlySkipped ==
    /\ [][(thread_pc = "line183" /\ thread_pc' # thread_pc)
            => thread_pc' = "line175"]_vars
    /\ [](\A i, j \in 1..Len(source) :
            ( /\ i < j
              /\ source[i] \in ErrorKinds
              /\ source[j] \in AdmissibleKinds
              /\ PastItem(j)
              /\ \E k \in 1..Len(AdmissibleIndices(source)) :
                    k <= max_comments /\ AdmissibleIndices(source)[k] = j )
            => \E k \in 1..Len(Buffer) : Buffer[k].author_id = j)

\* C6 witness: a malformed item and one with unparseable votes, then an
\* admitted comment.
C6_Witness ==
    /\ source = <<"malformed", "bad_votes", "es_ok">>
    /\ Len(Buffer) = 1
    /\ Buffer[1].author_id = 3

\* C7: the buffer is a prefix of the admissible items of the source in the
\* order the source emits them.
C7_BufferIsPrefix ==
    IsPrefixOf(Origins(Buffer), AdmissibleIndices(source))

\* C7 witness: two admitted comments with a discarded item between them.
C7_Witness ==
    /\ source = <<"no_cid", "en", "es_ok">>
    /\ Origins(Buffer) = <<1, 3>>

\* the thread has ended by itself: it left the loop (source exhausted, or
\* limit reached), or the source raised after its last item
ThreadCompleted ==
    \/ thread_pc = "finished"
    \/ thread_pc = "failed" /\ pos = Len(source)

\* C8: when the thread completes before join gives up, the returned list is
\* the first min(max_comments, number of admissible items) admissible items.
C8_FullBufferOnCompletion ==
    ( /\ caller_pc = "returned"
      /\ ThreadCompleted
      /\ ~result_container.completed )
    => Origins(Deref(returned)) = Take(AdmissibleIndices(source), max_comments)

\* C8 witness: three admissible items, a limit of two, two returned.
C8_Witness ==
    /\ caller_pc = "returned"
    /\ thread_pc = "finished"
    /\ ~result_container.completed
    /\ max_comments = 2
    /\ Len(AdmissibleIndices(source)) = 3
    /\ Origins(Deref(returned)) = <<1, 2>>


(***************************************************************************)
(* The remote service (sentiment-service/app.py) as the client sees it     *)
(***************************************************************************)
\* the condition of the service and of the network when a request is made
ServiceConditions == {"ready", "no_model", "failing", "bad_gateway", "slow", "unreachable"}

\* GET /health (app.py lines 138-144): 200 whenever the service answers
HealthReply(cond) ==
    CASE cond = "unreachable" -> "error"
      [] cond = "slow" -> "timeout"
      [] cond = "bad_gateway" -> "503"
      [] OTHER -> "200"

\* POST /analyze (app.py lines 146-167) for a batch of n texts
AnalyzeReply(cond, n) ==
    CASE cond = "unreachable" -> "error"
      [] cond = "slow" -> "timeout"
      [] cond \in {"bad_gateway", "no_model"} -> "503"
      [] n = 0 -> "400"
      [] cond = "failing" -> "500"
      [] OTHER -> "200"

\* what get_analyzer() and analyze_batch do when the fallback runs
LocalConditions == {"ok", "unavailable", "some_text_fails"}

(***************************************************************************)
(* SentimentServiceClient (sentiment_client.py)                            *)
(***************************************************************************)
health_check_interval == 30

\* timedelta.seconds: the seconds field of a non-negative timedelta, days apart
TimedeltaSeconds(delta) == delta % (24 * 60 * 60)

\* lines 78-79: not self.last_health_check or (now - last).seconds > interval
NeedsProbe ==
    \/ last_health_check = <<>>
    \/ TimedeltaSeconds(now - last_health_check[1]) > health_check_interval

\* line 83: if self.is_healthy
UseRemoteAlways(healthy) == TRUE
UseRemote(healthy) == healthy

\* lines 94-115: self.is_healthy after the answer to POST /analyze
HealthyAfterReplyCleared(reply, healthy) == FALSE
HealthyAfterReplyTimeoutKept(reply, healthy) ==
    IF reply \in {"200", "timeout"} THEN healthy ELSE FALSE
HealthyAfterReply(reply, healthy) == IF reply = "200" THEN healthy ELSE FALSE

\* _fallback_analysis, lines 120-143: does it get as far as analyze_batch
FallbackRuns(local) == fallback_to_local /\ local # "unavailable"

\* SentimentAnalyzer.analyze_batch (sentiment_service.py lines 209-233): one
\* entry per text.  The entry of a text whose analysis raised has sentiment
\* None and no 'confidence' key; under "some_text_fails" that is the first text.
analyze_batch_confident(n, local) ==
    [i \in 1..n |->
        IF local = "some_text_fails" /\ i = 1
        THEN [has_sentiment |-> FALSE, has_confidence |-> TRUE]
        ELSE [has_sentiment |-> TRUE, has_confidence |-> TRUE]]
analyze_batch(n, local) ==
    [i \in 1..n |->
        IF local = "some_text_fails" /\ i = 1
        THEN [has_sentiment |-> FALSE, has_confidence |-> FALSE]
        ELSE [has_sentiment |-> TRUE, has_confidence |-> TRUE]]

Raised == [status |-> "raised", service |-> "none", outcomes |-> 0]

\* _fallback_analysis, lines 120-143: the dict it returns, or the raise.
\* outcomes counts the texts of the dict that have a sentiment.  Line 138
\* reads r["confidence"] of every entry and raises KeyError on an entry
\* without that key.
FallbackResultEmpty(local, n) ==
    IF ~fallback_to_local \/ local = "unavailable"
    THEN [status |-> "ok", service |-> "local", outcomes |-> 0]
    ELSE [status |-> "ok", service |-> "local", outcomes |-> n]
FallbackResult(local, n) ==
    IF ~fallback_to_local THEN Raised
    ELSE IF local = "unavailable" THEN Raised
    ELSE LET results == analyze_batch(n, local)
         IN  IF \E i \in 1..n : ~results[i].has_confidence
             THEN Raised
             ELSE [status |-> "ok", service |-> "local",
                   outcomes |-> Cardinality({i \in 1..n : results[i].has_sentiment})]

\* lines 97-102: the dict built from the body of a 200 answer
RemoteResult(n) == [status |-> "ok", service |-> "remote", outcomes |-> n]

\* the call of caller c goes through _fallback_analysis and ends
Fallback(c, rec, local) ==
    /\ call' = [call EXCEPT ![c] =
                  [rec EXCEPT !.locals = IF FallbackRuns(local) THEN @ + 1 ELSE @,
                              !.fallbacks = @ + 1,
                              !.fallback_texts = rec.texts,
                              !.local_cond = IF fallback_to_local THEN local ELSE "none"]]
    /\ result' = [result EXCEPT ![c] = FallbackResult(local, rec.texts)]
    /\ client_pc' = [client_pc EXCEPT ![c] = "done"]

\* lines 103-106 and 112-115: the _fallback_analysis of line 106 is called
\* inside the try of line 84, so an exception it raises is caught at line 112
\* and _fallback_analysis is called once more at line 115; nothing awaits in
\* between.  local and again are what the local side does in the two calls.
FallbackInTry(c, rec, local, again) ==
    LET first == FallbackResult(local, rec.texts)
        caught == first = Raised
        runs == (IF FallbackRuns(local) THEN 1 ELSE 0)
                  + (IF caught /\ FallbackRuns(again) THEN 1 ELSE 0)
    IN  /\ call' = [call EXCEPT ![c] =
                      [rec EXCEPT !.locals = @ + runs,
                                  !.fallbacks = @ + (IF caught THEN 2 ELSE 1),
                                  !.fallback_texts = rec.texts,
                                  !.local_cond = IF ~fallback_to_local THEN "none"
                                                 ELSE IF caught THEN again
                                                 ELSE local]]
        /\ result' = [result EXCEPT ![c] =
                        IF caught THEN FallbackResult(again, rec.texts) ELSE first]
        /\ client_pc' = [client_pc EXCEPT ![c] = "done"]

\* the call of caller c sends POST /analyze and awaits the answer (line 86)
SendAnalyze(c, rec) ==
    /\ call' = [call EXCEPT ![c] = [rec EXCEPT !.posts = @ + 1]]
    /\ client_pc' = [client_pc EXCEPT ![c] = "line86"]
    /\ UNCHANGED result

\* lines 83-118 once self.is_healthy is known: remote dispatch or fallback
Dispatch(c, rec, healthy) ==
    IF UseRemote(healthy)
    THEN SendAnalyze(c, rec)
    ELSE \E local \in LocalConditions : Fallback(c, rec, local)

\* analyze_sentiment is entered with a batch of n texts (lines 77-83): the
\* cache is stale, so GET /health is sent (line 43); or it is fresh and the
\* call goes on to line 83 at once
CallBegin(c) ==
    /\ client_pc[c] = "idle"
    /\ calls_made < MaxCalls
    /\ calls_made' = calls_made + 1
    /\ \E n \in 0..MaxBatch :
         LET rec == [NoCall EXCEPT
                        !.texts = n,
                        !.cached_on_entry =
                            /\ last_health_check # <<>>
                            /\ now - last_health_check[1] <= health_check_interval,
                        !.healthy_on_entry = is_healthy]
         IN  IF NeedsProbe
             THEN /\ call' = [call EXCEPT ![c] = [rec EXCEPT !.probes = 1]]
                  /\ client_pc' = [client_pc EXCEPT ![c] = "line43"]
                  /\ result' = [result EXCEPT ![c] = NoResult]
             ELSE \/ /\ UseRemote(is_healthy)
                     /\ call' = [call EXCEPT ![c] = [rec EXCEPT !.posts = 1]]
                     /\ client_pc' = [client_pc EXCEPT ![c] = "line86"]
                     /\ result' = [result EXCEPT ![c] = NoResult]
                  \/ /\ ~UseRemote(is_healthy)
                     /\ \E local \in LocalConditions : Fallback(c, rec, local)
    /\ UNCHANGED <<fallback_to_local, is_healthy, last_health_check, now, advances,
                   last_probe, outsideClient>>

\* check_health, lines 43-56: the answer to GET /health arrives, or the request
\* fails; analyze_sentiment then goes on from line 83
HealthReplied(c) ==
    /\ client_pc[c] = "line43"
    /\ \E cond \in ServiceConditions :
         LET reply == HealthReply(cond)
             healthy == reply = "200"
         IN  /\ is_healthy' = healthy
             /\ last_health_check' = IF reply \in {"error", "timeout"}
                                     THEN last_health_check ELSE <<now>>
             /\ Dispatch(c, call[c], healthy)
    /\ last_probe' = <<now>>
    /\ UNCHANGED <<fallback_to_local, now, calls_made, advances, outsideClient>>

\* lines 86-115: the answer to POST /analyze arrives, or the request fails
AnalyzeReplied(c) ==
    /\ client_pc[c] = "line86"
    /\ \E cond \in ServiceConditions :
         LET reply == AnalyzeReply(cond, call[c].texts)
             rec == [call[c] EXCEPT !.post_reply = reply]
         IN  /\ is_healthy' = HealthyAfterReply(reply, is_healthy)
             /\ IF reply = "200"
                THEN /\ call' = [call EXCEPT ![c] = rec]
                     /\ result' = [result EXCEPT ![c] = RemoteResult(rec.texts)]
                     /\ client_pc' = [client_pc EXCEPT ![c] = "done"]
                ELSE IF reply \in {"timeout", "error"}
                THEN \E local \in LocalConditions : Fallback(c, rec, local)
                ELSE \E local, again \in LocalConditions :
                        FallbackInTry(c, rec, local, again)
    /\ UNCHANGED <<fallback_to_local, last_health_check, now, calls_made, advances,
                   last_probe, outsideClient>>

\* the caller takes the result, or the exception, of the call
CallEnd(c) ==
    /\ client_pc[c] = "done"
    /\ client_pc' = [client_pc EXCEPT ![c] = "idle"]
    /\ UNCHANGED <<fallback_to_local, is_healthy, last_health_check, now, call, result,
                   calls_made, advances, last_probe, outsideClient>>

\* time passes: a few seconds, more than the cache interval, or a day
Advance ==
    /\ advances < MaxAdvances
    /\ advances' = advances + 1
    /\ \E d \in {10, 31, 24 * 60 * 60} : now' = now + d
    /\ UNCHANGED <<fallback_to_local, is_healthy, last_health_check, client_pc, call,
                   result, calls_made, last_probe, outsideClient>>

\* no extraction is going on
ExtractIdle ==
    /\ source = <<>>
    /\ max_comments = 0
    /\ result_container = [comments |-> <<>>, completed |-> FALSE]
    /\ thread_pc = "unstarted"
    /\ pos = 0
    /\ comment_count = 0
    /\ filtered_count = 0
    /\ caller_pc = "line251"
    /\ returned = None
    /\ elapsed = 0
    /\ flagged_at = <<>>

InitClient ==
    /\ fallback_to_local \in BOOLEAN
    /\ is_healthy = FALSE
    /\ last_health_check = <<>>
    /\ now = 0
    /\ client_pc = [c \in Callers |-> "idle"]
    /\ call = [c \in Callers |-> NoCall]
    /\ result = [c \in Callers |-> NoResult]
    /\ calls_made = 0
    /\ advances = 0
    /\ last_probe = <<>>
    /\ ExtractIdle
    /\ SearchIdle
    /\ OthersIdle

\* one caller at a time
NextClient ==
    \/ CallBegin(1)
    \/ HealthReplied(1)
    \/ AnalyzeReplied(1)
    \/ CallEnd(1)
    \/ Advance

SpecClient == InitClient /\ [][NextClient]_vars

\* the callers share the singleton of get_sentiment_client (lines 146-154) on
\* one event loop: a coroutine runs alone from one await to the next, and the
\* awaits of analyze_sentiment are the two HTTP requests
MaxSharedCalls == 2
MaxSharedAdvances == 1

NextClientShared ==
    \/ \E c \in Callers : calls_made < MaxSharedCalls /\ CallBegin(c)
    \/ \E c \in Callers : HealthReplied(c)
    \/ \E c \in Callers : AnalyzeReplied(c)
    \/ \E c \in Callers : CallEnd(c)
    \/ advances < MaxSharedAdvances /\ Advance

SpecClientShared == InitClient /\ [][NextClientShared]_vars

(***************************************************************************)
(* Properties of analyze_sentiment                                         *)
(***************************************************************************)
\* the call of caller c began with a probe recorded within the last 30
\* seconds and is_healthy false
CachedUnhealthyOnEntry(c) ==
    /\ client_pc[c] # "idle"
    /\ call[c].cached_on_entry
    /\ ~call[c].healthy_on_entry

\* C9: a call that begins while the probe is cached as unhealthy sends no
\* request to /analyze (and no probe), and a result it returns is tagged local.
C9_NoRemoteWhenCachedUnhealthy ==
    \A c \in Callers :
        CachedUnhealthyOnEntry(c) =>
            /\ call[c].posts = 0
            /\ call[c].probes = 0
            /\ result[c].status = "ok" => result[c].service = "local"

\* C9 witness: such a call has run the local classifier and returned.
C9_Witness ==
    /\ CachedUnhealthyOnEntry(1)
    /\ call[1].texts = 2
    /\ call[1].locals = 1
    /\ result[1] = [status |-> "ok", service |-> "local", outcomes |-> 2]

\* C10: when the answer to POST /analyze is a 200, the call returns a result
\* tagged remote, the local classifier has not run, and is_healthy is still
\* true when the call ends.
C10_RemoteSuccessStaysHealthy ==
    \A c \in Callers :
        (client_pc[c] = "done" /\ call[c].post_reply = "200") =>
            /\ result[c].status = "ok"
            /\ result[c].service = "remote"
            /\ call[c].locals = 0
            /\ call[c].posts = 1
            /\ is_healthy

\* C10 witness: a call found the cache fresh and healthy, posted and got a 200.
C10_Witness ==
    /\ client_pc[1] = "done"
    /\ call[1].post_reply = "200"
    /\ call[1].cached_on_entry
    /\ call[1].healthy_on_entry
    /\ result[1] = [status |-> "ok", service |-> "remote", outcomes |-> 2]

\* C11: when the answer to POST /analyze is anything but a 200 (another
\* status, a timeout, a transport error), is_healthy is false when the call
\* ends and the same batch has gone through _fallback_analysis in that call.
C11_RemoteFailureFallsBack ==
    \A c \in Callers :
        (client_pc[c] = "done" /\ call[c].post_reply \notin {"none", "200"}) =>
            /\ ~is_healthy
            /\ call[c].posts = 1
            /\ call[c].fallbacks >= 1
            /\ call[c].fallback_texts = call[c].texts

\* C11 witness: the request timed out and the local classifier answered for
\* the two texts.
C11_Witness ==
    /\ client_pc[1] = "done"
    /\ call[1].post_reply = "timeout"
    /\ call[1].fallbacks = 1
    /\ ~is_healthy
    /\ result[1] = [status |-> "ok", service |-> "local", outcomes |-> 2]

C13_AllOrNothing ==
    \A c \in Callers :
        client_pc[c] = "done" =>
            \/ result[c] = Raised
            \/ /\ result[c].status = "ok"
               /\ result[c].service \in {"remote", "local"}
               /\ result[c].outcomes = call[c].texts

\* C13 witness: the local classifier failed on one text of two, and the call
\* raised.
C13_Witness ==
    /\ client_pc[1] = "done"
    /\ call[1].texts = 2
    /\ call[1].local_cond = "some_text_fails"
    /\ call[1].locals = 1
    /\ result[1] = Raised

\* C14 (as claimed): a call that begins within 30 seconds of the end of a
\* probe, whatever the outcome of that probe, sends no probe.
C14_ProbeCachedWhateverOutcome ==
    [][\A c \in Callers :
          ( /\ client_pc[c] = "idle"
            /\ client_pc'[c] # "idle"
            /\ last_probe # <<>>
            /\ now - last_probe[1] <= health_check_interval )
          => call'[c].probes = 0]_vars

\* C15 (as claimed): a call that begins more than 30 seconds after the last
\* recorded probe sends a probe.
C15_StaleCacheProbes ==
    [][\A c \in Callers :
          ( /\ client_pc[c] = "idle"
            /\ client_pc'[c] # "idle"
            /\ last_health_check # <<>>
            /\ now - last_health_check[1] > health_check_interval )
          => call'[c].probes = 1]_vars

\* C16 (as claimed): with callers sharing the client, at most one probe is in
\* flight at any time.
C16_OneProbeInFlight ==
    Cardinality({c \in Callers : client_pc[c] = "line43"}) <= 1

(***************************************************************************)
(* YouTubeScraper.search_videos (youtube_scraper.py lines 61-134)          *)
(* Time is counted in hours; hour 24 * d is midnight of day d.             *)
(***************************************************************************)
MaxEntries == 3
HoursPerDay == 24

\* the upload_date yt-dlp reports for an upload at hour t: the calendar day
ReportedDate(t) == t \div HoursPerDay

\* line 102: datetime.strptime(upload_date, '%Y%m%d'), midnight of that day
strptime(day) == day * HoursPerDay

\* entries of info['entries'].  uploaded_at is the hour of the upload; the
\* entry carries of it only what its date field says.
Entry(is_dict, has_id, date, uploaded_at, vc_kind, vc) ==
    [is_dict |-> is_dict, has_id |-> has_id, date |-> date,
     uploaded_at |-> uploaded_at, view_count |-> [kind |-> vc_kind, value |-> vc]]

SearchEntries ==
    { Entry(TRUE, TRUE, "ymd", 48, "int", 9),       \* uploaded today at 00:00
      Entry(TRUE, TRUE, "ymd", 47, "int", 5),       \* uploaded yesterday at 23:00
      Entry(TRUE, TRUE, "ymd", 10, "int", 7),       \* uploaded two days ago
      Entry(TRUE, TRUE, "missing", 47, "int", 3),   \* no upload_date
      Entry(TRUE, TRUE, "malformed", 47, "int", 4), \* upload_date is not YYYYMMDD
      Entry(TRUE, FALSE, "ymd", 48, "int", 6),      \* no 'id'
      Entry(FALSE, FALSE, "missing", 48, "missing", 0), \* the entry is None
      Entry(TRUE, TRUE, "ymd", 48, "null", 0),      \* 'view_count': None
      Entry(TRUE, TRUE, "ymd", 48, "missing", 0) }  \* no 'view_count'

SearchNows == {48, 58}
HoursBack == {1, 24, 48}

\* line 95: cutoff_time = datetime.now() - timedelta(hours=hours_back)
cutoff_time == search_now - hours_back

\* lines 99-104: upload_dt of an entry whose date can be read
upload_dt_epoch(entry) ==
    IF entry.date = "ymd" THEN strptime(ReportedDate(entry.uploaded_at)) ELSE 0
upload_dt(entry) ==
    IF entry.date = "ymd" THEN strptime(ReportedDate(entry.uploaded_at))
    ELSE search_now

\* line 115: entry.get('view_count', 0)
GetViewCount(entry) ==
    CASE entry.view_count.kind = "missing" -> [is_none |-> FALSE, value |-> 0]
      [] entry.view_count.kind = "null" -> [is_none |-> TRUE, value |-> 0]
      [] OTHER -> [is_none |-> FALSE, value |-> entry.view_count.value]

\* lines 99-104 raise: entry.get on None, strptime on a malformed date
DateRaises(entry) == ~entry.is_dict \/ entry.date = "malformed"

\* line 107: if upload_dt < cutoff_time: continue
TooOld(entry) == upload_dt(entry) < cutoff_time

\* lines 111-120 raise: entry['id'] on an entry without id
VideoRaises(entry) == ~entry.has_id

\* the try of lines 98-121 raises for this entry
MappingRaises(entry) ==
    \/ DateRaises(entry)
    \/ ~TooOld(entry) /\ VideoRaises(entry)

\* lines 111-120: the YouTubeVideo of entry number i
MapVideo(entry, i) ==
    [video_id |-> i, views |-> GetViewCount(entry), upload_date |-> upload_dt(entry)]

\* lines 123-125: the handler of one entry logs and goes on with the loop
EntryHandler == "line97"

\* lines 131-132: the handler of the whole search logs and goes on to line 134
SearchHandler == "line134"

\* line 128: list.sort compares the keys; None does not compare
SortRaises(vs) == Len(vs) >= 2 /\ \E i \in 1..Len(vs) : vs[i].views.is_none

\* line 128: videos.sort(key=lambda v: v.views, reverse=True), a stable sort
RECURSIVE InsertByViews(_, _)
InsertByViews(sorted, v) ==
    IF sorted = <<>> THEN <<v>>
    ELSE IF Head(sorted).views.value >= v.views.value
         THEN <<Head(sorted)>> \o InsertByViews(Tail(sorted), v)
         ELSE <<v>> \o sorted

RECURSIVE SortByViews(_)
SortByViews(vs) ==
    IF vs = <<>> THEN <<>>
    ELSE InsertByViews(SortByViews(SubSeq(vs, 1, Len(vs) - 1)), vs[Len(vs)])

\* the orders in which a sort that raised can leave the list
RECURSIVE Orderings(_)
Orderings(S) ==
    IF S = {} THEN {<<>>}
    ELSE UNION {{<<x>> \o q : q \in Orderings(S \ {x})} : x \in S}

RECURSIVE Reordered(_, _)
Reordered(vs, order) ==
    IF order = <<>> THEN <<>>
    ELSE <<vs[Head(order)]>> \o Reordered(vs, Tail(order))

\* line 88: ydl.extract_info
SearchExtractInfo ==
    /\ search_pc = "line61"
    /\ \/ /\ info_kind = "raises"
          /\ search_pc' = SearchHandler
          /\ UNCHANGED found
       \/ /\ info_kind = "no_entries"
          /\ search_pc' = "returned"
          /\ found' = <<>>
       \/ /\ info_kind = "entries"
          /\ search_pc' = "line97"
          /\ UNCHANGED found
    /\ UNCHANGED <<info_kind, entries, enum_fails, hours_back, search_now, videos,
                   entry_idx, outsideSearch>>

\* lines 97-124: one turn of the loop
SearchEntry ==
    /\ search_pc = "line97"
    /\ entry_idx < Len(entries)
    /\ entry_idx' = entry_idx + 1
    /\ LET entry == entries[entry_idx + 1]
       IN  IF MappingRaises(entry)
           THEN /\ search_pc' = EntryHandler
                /\ UNCHANGED videos
           ELSE /\ search_pc' = "line97"
                /\ videos' = IF TooOld(entry) THEN videos
                             ELSE Append(videos, MapVideo(entry, entry_idx + 1))
    /\ UNCHANGED <<info_kind, entries, enum_fails, hours_back, search_now, found,
                   outsideSearch>>

\* line 97: the iterator of info['entries'] raises
SearchEnumerationFails ==
    /\ search_pc = "line97"
    /\ entry_idx = Len(entries)
    /\ enum_fails
    /\ search_pc' = SearchHandler
    /\ UNCHANGED <<info_kind, entries, enum_fails, hours_back, search_now, videos,
                   entry_idx, found, outsideSearch>>

\* line 128: the loop is over, the list is sorted
SearchSort ==
    /\ search_pc = "line97"
    /\ entry_idx = Len(entries)
    /\ ~enum_fails
    /\ IF SortRaises(videos)
       THEN /\ search_pc' = SearchHandler
            /\ \E order \in Orderings(1..Len(videos)) :
                 videos' = Reordered(videos, order)
       ELSE /\ search_pc' = "line134"
            /\ videos' = SortByViews(videos)
    /\ UNCHANGED <<info_kind, entries, enum_fails, hours_back, search_now,
                   entry_idx, found, outsideSearch>>

\* line 134: return videos
SearchReturn ==
    /\ search_pc = "line134"
    /\ search_pc' = "returned"
    /\ found' = videos
    /\ UNCHANGED <<info_kind, entries, enum_fails, hours_back, search_now, videos,
                   entry_idx, outsideSearch>>

InitSearch ==
    /\ info_kind \in {"entries", "no_entries", "raises"}
    /\ entries \in SeqsUpTo(SearchEntries, MaxEntries)
    /\ enum_fails \in BOOLEAN
    /\ info_kind # "entries" => (entries = <<>> /\ ~enum_fails)
    /\ hours_back \in HoursBack
    /\ search_now \in SearchNows
    /\ videos = <<>>
    /\ entry_idx = 0
    /\ search_pc = "line61"
    /\ found = <<>>
    /\ ExtractIdle
    /\ ClientIdle
    /\ OthersIdle

NextSearch ==
    \/ SearchExtractInfo
    \/ SearchEntry
    \/ SearchEnumerationFails
    \/ SearchSort
    \/ SearchReturn

SpecSearch == InitSearch /\ [][NextSearch]_vars

(***************************************************************************)
(* Properties of search_videos                                             *)
(***************************************************************************)
\* positions in info['entries'] of the videos returned
FoundIds == {found[i].video_id : i \in 1..Len(found)}

\* the entry can be mapped to a YouTubeVideo
Mappable(entry) == ~DateRaises(entry) /\ ~VideoRaises(entry)

\* the search went through the handler of lines 131-132
WholesaleFailure ==
    \/ info_kind = "raises"
    \/ enum_fails
    \/ SortRaises(found)

\* the upload lies in [now - hours_back, now]
InWindow(t) == search_now - hours_back <= t /\ t <= search_now

\* C17 (as claimed): whatever search_videos returns is sorted by views,
\* descending, null or missing view counts and failed enumerations included.
C17_SortedByViews ==
    search_pc = "returned" =>
        \A i, j \in 1..Len(found) :
            i < j => /\ ~found[i].views.is_none
                     /\ ~found[j].views.is_none
                     /\ found[i].views.value >= found[j].views.value

\* C18 (as claimed): of the entries that carry a date and can be mapped,
\* search_videos returns exactly those uploaded in [now - hours_back, now].
C18_ExactlyWindow ==
    (search_pc = "returned" /\ info_kind = "entries") =>
        \A i \in 1..Len(entries) :
            (Mappable(entries[i]) /\ entries[i].date = "ymd") =>
                (i \in FoundIds <=> InWindow(entries[i].uploaded_at))

\* C19: an entry without upload_date that can be mapped is in the result,
\* for every hours_back.
C19_UndatedKept ==
    (search_pc = "returned" /\ info_kind = "entries") =>
        \A i \in 1..Len(entries) :
            (Mappable(entries[i]) /\ entries[i].date = "missing") => i \in FoundIds

\* C19 witness: with hours_back = 1 an entry without date was returned next
\* to a dated entry that was dropped as too old.
C19_Witness ==
    /\ search_pc = "returned"
    /\ hours_back = 1
    /\ Len(entries) = 2
    /\ entries[1].date = "ymd" /\ Mappable(entries[1])
    /\ entries[2].date = "missing" /\ Mappable(entries[2])
    /\ FoundIds = {2}

\* C20 (as claimed): search_videos never raises, and a search that went
\* through the handler of the whole search returns the empty list.
C20_FailureReturnsEmpty ==
    /\ search_pc # "raised"
    /\ (search_pc = "returned" /\ WholesaleFailure) => found = <<>>

\* What the code does: it never raises, an entry that fails is the only one
\* left out, and a failed search returns the videos mapped before the failure.
C20_FailureReturnsMapped ==
    /\ search_pc # "raised"
    /\ search_pc = "returned" =>
         FoundIds = {i \in 1..Len(entries) :
                        Mappable(entries[i]) /\ ~TooOld(entries[i])}

(***************************************************************************)
(* YouTubeScraper.scrape_search_results (youtube_scraper.py lines 265-324) *)
(***************************************************************************)
MaxFound == 3
MaxMaxVideos == 3
MaxPerVideo == 2
MaxScrapeNow == 2

\* the views a video of the search result can carry: None (a null
\* view_count, line 115) or a number
ScrapeViews ==
    { [is_none |-> TRUE, value |-> 0],
      [is_none |-> FALSE, value |-> 3],
      [is_none |-> FALSE, value |-> 9] }

\* what search_videos can return (lines 84-134): videos in the order of the
\* sort, or in the order of enumeration when the search went through its
\* handler; the video_id of a video is its position
SearchReturns ==
    { [i \in 1..Len(vs) |-> [video_id |-> i, views |-> vs[i]]] :
        vs \in SeqsUpTo(ScrapeViews, MaxFound) }

\* line 290: stats.videos_found = len(videos)
VideosFoundOffByOne(vs) == Len(vs) + 1
VideosFound(vs) == Len(vs)

\* line 292: if not videos
NoVideos(vs) == vs = <<>>

\* line 298: videos[:max_videos]
Slice(vs, n) == SubSeq(vs, 1, Min(n, Len(vs)))

\* line 300: f"{video.views:,}" raises TypeError when views is None
LogRaises(video) == video.views.is_none

\* line 303: the comments extract_comments returns for a video, k of them
Extracted(video, k) == [j \in 1..k |-> <<video.video_id, j>>]

\* lines 304-307: extract_comments returns the list its thread appends to
\* (line 263).  After a timeout the thread, already past its test of the
\* flag, can append one more comment while the list is below
\* self.max_comments: after line 304 has copied the k comments and before
\* line 307 takes len(comments).
LateAppends(k) == IF k < max_comments THEN {0, 1} ELSE {0}

\* line 307: stats.comments_extracted += len(comments)
SetExtracted(old, k) == k
AddExtracted(old, k) == old + k

\* lines 309-312: the handler of one video logs, records, and the loop goes on
VideoHandlerAborts == "line322"
VideoHandler == "line298"

\* lines 310-312 and 317-319: the messages appended to stats.errors
VideoError(video) == <<"Error en video", video.video_id>>
CriticalError == <<"Error critico en scraping", 0>>

\* line 322: finally: stats.end_time = datetime.now()
EndTimeKept(st, t) == st
EndTimeAtFinally(st, t) == [st EXCEPT !.end_time = <<t>>]

\* lines 284-285
ScrapeStart ==
    /\ scrape_pc = "line265"
    /\ stats' = NewStats(scrape_now)
    /\ all_comments' = <<>>
    /\ scrape_pc' = "line289"
    /\ UNCHANGED <<searched, max_videos, max_comments_per_video, video_idx, scrape_now, scrape_result,
                   end_time_writes, started, outsideScrape>>

\* lines 289-295: search_videos has returned
ScrapeSearched ==
    /\ scrape_pc = "line289"
    /\ IF NoVideos(searched)
       THEN /\ stats' = [stats EXCEPT !.videos_found = VideosFound(searched),
                                      !.end_time = <<scrape_now>>]
            /\ end_time_writes' = end_time_writes + 1
            /\ scrape_result' = <<>>
            /\ scrape_pc' = "line322_return"
       ELSE /\ stats' = [stats EXCEPT !.videos_found = VideosFound(searched)]
            /\ scrape_pc' = "line298"
            /\ UNCHANGED <<end_time_writes, scrape_result>>
    /\ UNCHANGED <<searched, max_videos, max_comments_per_video, all_comments, video_idx, scrape_now,
                   started, outsideScrape>>

\* lines 298-312: one turn of the loop
ScrapeVideo ==
    /\ scrape_pc = "line298"
    /\ video_idx < Len(Slice(searched, max_videos))
    /\ video_idx' = video_idx + 1
    /\ LET video == Slice(searched, max_videos)[video_idx + 1]
       IN  IF LogRaises(video)
           THEN /\ stats' = [stats EXCEPT !.errors = Append(@, VideoError(video))]
                /\ scrape_pc' = VideoHandler
                /\ UNCHANGED <<all_comments, started>>
           ELSE \E k \in 0..max_comments :
                \E late \in LateAppends(k) :
                  /\ scrape_pc' = "line298"
                  /\ started' = Append(started, video.video_id)
                  /\ all_comments' = all_comments \o Extracted(video, k)
                  /\ stats' = [stats EXCEPT
                                 !.videos_processed = @ + 1,
                                 !.comments_extracted = AddExtracted(@, k + late)]
    /\ UNCHANGED <<searched, max_videos, max_comments_per_video, scrape_now, scrape_result,
                   end_time_writes, outsideScrape>>

\* line 314: the loop is over
ScrapeLoopDone ==
    /\ scrape_pc = "line298"
    /\ video_idx = Len(Slice(searched, max_videos))
    /\ scrape_pc' = "line322"
    /\ UNCHANGED <<searched, max_videos, max_comments_per_video, stats, all_comments, video_idx, scrape_now,
                   scrape_result, end_time_writes, started, outsideScrape>>

\* lines 316-319: an Exception outside the try of one video (a MemoryError
\* at line 298)
ScrapeCritical ==
    /\ scrape_pc = "line298"
    /\ stats' = [stats EXCEPT !.errors = Append(@, CriticalError)]
    /\ scrape_pc' = "line322"
    /\ UNCHANGED <<searched, max_videos, max_comments_per_video, all_comments, video_idx, scrape_now,
                   scrape_result, end_time_writes, started, outsideScrape>>

\* a BaseException that except Exception does not catch (KeyboardInterrupt)
ScrapeInterrupted ==
    /\ scrape_pc \in {"line289", "line298"}
    /\ scrape_pc' = "line322_raise"
    /\ UNCHANGED <<searched, max_videos, max_comments_per_video, stats, all_comments, video_idx, scrape_now,
                   scrape_result, end_time_writes, started, outsideScrape>>

\* lines 321-324: the finally clause, then the pending return or raise
ScrapeFinally ==
    /\ scrape_pc \in {"line322", "line322_return", "line322_raise"}
    /\ stats' = EndTimeAtFinally(stats, scrape_now)
    /\ end_time_writes' = end_time_writes + 1
    /\ scrape_pc' = IF scrape_pc = "line322_raise" THEN "raised" ELSE "returned"
    /\ scrape_result' = IF scrape_pc = "line322" THEN all_comments ELSE scrape_result
    /\ UNCHANGED <<searched, max_videos, max_comments_per_video, all_comments, video_idx, scrape_now,
                   started, outsideScrape>>

\* the wall clock moves on during the run
ScrapeTick ==
    /\ scrape_pc \notin {"returned", "raised"}
    /\ scrape_now < MaxScrapeNow
    /\ scrape_now' = scrape_now + 1
    /\ UNCHANGED <<searched, max_videos, max_comments_per_video, stats, all_comments, video_idx, scrape_pc,
                   scrape_result, end_time_writes, started, outsideScrape>>

\* YouTubeScraper(max_comments_per_video=n), lines 43-51: self.max_comments
\* is n and no extraction is going on
ExtractorBuilt(n) ==
    /\ source = <<>>
    /\ max_comments = n
    /\ result_container = [comments |-> <<>>, completed |-> FALSE]
    /\ thread_pc = "unstarted"
    /\ pos = 0
    /\ comment_count = 0
    /\ filtered_count = 0
    /\ caller_pc = "line251"
    /\ returned = None
    /\ elapsed = 0
    /\ flagged_at = <<>>

InitScrape ==
    /\ searched \in SearchReturns
    /\ max_videos \in 1..MaxMaxVideos
    /\ stats = NewStats(0)
    /\ all_comments = <<>>
    /\ video_idx = 0
    /\ scrape_pc = "line265"
    /\ scrape_now \in 0..1
    /\ scrape_result = <<>>
    /\ end_time_writes = 0
    /\ started = <<>>
    /\ max_comments_per_video \in {1, MaxPerVideo}
    /\ ExtractorBuilt(MaxPerVideo)
    /\ ClientIdle
    /\ SearchIdle
    /\ TextIdle
    /\ StatisticsIdle
    /\ BatchIdle

NextScrape ==
    \/ ScrapeStart
    \/ ScrapeSearched
    \/ ScrapeVideo
    \/ ScrapeLoopDone
    \/ ScrapeCritical
    \/ ScrapeInterrupted
    \/ ScrapeFinally
    \/ ScrapeTick

SpecScrape == InitScrape /\ [][NextScrape]_vars

(***************************************************************************)
(* Properties of scrape_search_results                                     *)
(***************************************************************************)
\* the run came back through line 324 without a top-level exception
ScrapeCompleted ==
    /\ scrape_pc = "returned"
    /\ ~NoVideos(searched)
    /\ \A i \in 1..Len(stats.errors) : stats.errors[i] # CriticalError

\* the videos of the selection whose turn of the loop raised
FailingVideos == {i \in 1..Len(Slice(searched, max_videos)) : LogRaises(searched[i])}

\* C21: a turn of the loop that raises appends one message for its video,
\* leaves all_comments as it was and stays in the loop; a run that completes
\* has taken every video of the selection, has one message per failed video
\* and has processed all the others.
C21_VideoFailureIsolated ==
    /\ [](ScrapeCompleted =>
            /\ video_idx = Len(Slice(searched, max_videos))
            /\ \A i \in FailingVideos :
                 Cardinality({j \in 1..Len(stats.errors) :
                                 stats.errors[j] = VideoError(searched[i])}) = 1
            /\ Len(stats.errors) = Cardinality(FailingVideos)
            /\ stats.videos_processed = video_idx - Cardinality(FailingVideos))
    /\ [][( /\ scrape_pc = "line298"
            /\ video_idx' = video_idx + 1
            /\ LogRaises(searched[video_idx']) )
          => /\ stats'.errors = Append(stats.errors, VideoError(searched[video_idx']))
             /\ all_comments' = all_comments
             /\ scrape_pc' = "line298"]_vars

\* C21 witness: of three videos the second failed; the comments of the first
\* are kept and the third was processed.
C21_Witness ==
    /\ ScrapeCompleted
    /\ FailingVideos = {2}
    /\ started = <<1, 3>>
    /\ stats.errors = <<VideoError(searched[2])>>
    /\ all_comments = <<<<1, 1>>, <<1, 2>>, <<3, 1>>>>

\* C22 (as claimed): when the run hands control back, stats.end_time has
\* been assigned exactly once.
C22_EndTimeOnce ==
    scrape_pc \in {"returned", "raised"} => end_time_writes = 1

\* C23: when the run hands control back, by return or by exception,
\* stats.end_time is set and is not earlier than stats.start_time.
C23_EndTimeSet ==
    scrape_pc \in {"returned", "raised"} =>
        /\ stats.end_time # <<>>
        /\ stats.end_time[1] >= stats.start_time

\* C23 witness: a run that was interrupted after its first video handed
\* control back by exception, two clock ticks after it began.
C23_Witness ==
    /\ scrape_pc = "raised"
    /\ started = <<1>>
    /\ stats.start_time = 0
    /\ stats.end_time = <<2>>

\* C24: a run whose search gave no video has called extract_comments for
\* none, returns the empty list, and its stats show zeros, no error and an
\* end_time.
C24_NoVideosNoExtraction ==
    (scrape_pc = "returned" /\ NoVideos(searched)) =>
        /\ started = <<>>
        /\ scrape_result = <<>>
        /\ stats.videos_found = 0
        /\ stats.videos_processed = 0
        /\ stats.comments_extracted = 0
        /\ stats.errors = <<>>
        /\ stats.end_time # <<>>

\* C24 witness: such a run has returned.
C24_Witness ==
    /\ scrape_pc = "returned"
    /\ NoVideos(searched)
    /\ scrape_result = <<>>
    /\ stats.end_time = <<1>>

\* C25: from one step to the next no counter of the stats decreases and
\* stats.errors only grows at its end.
C25_CountersMonotone ==
    [][/\ stats'.videos_found >= stats.videos_found
       /\ stats'.videos_processed >= stats.videos_processed
       /\ stats'.comments_extracted >= stats.comments_extracted
       /\ stats'.comments_filtered >= stats.comments_filtered
       /\ IsPrefixOf(stats.errors, stats'.errors)]_vars

\* C25 witness: two videos gave two comments and then one, a third failed.
C25_Witness ==
    /\ scrape_pc = "returned"
    /\ stats.videos_found = 3
    /\ stats.videos_processed = 2
    /\ stats.comments_extracted = 3
    /\ Len(stats.errors) = 1
    /\ all_comments = <<<<1, 1>>, <<1, 2>>, <<2, 1>>>>

\* a has at least as many views as b
ViewsAtLeast(a, b) == ~a.is_none /\ ~b.is_none /\ a.value >= b.value

\* C26 (as claimed): extract_comments is called for at most max_videos
\* videos, in descending order of views, and in a run that completes they
\* are the max_videos videos with the most views of the search result.
C26_TopVideosInOrder ==
    /\ Len(started) <= max_videos
    /\ \A j, k \in 1..Len(started) :
         j < k => ViewsAtLeast(searched[started[j]].views, searched[started[k]].views)
    /\ ScrapeCompleted =>
         /\ Len(started) = Min(max_videos, Len(searched))
         /\ \A i \in 1..Len(searched) :
              (\A j \in 1..Len(started) : started[j] # i) =>
                 \A j \in 1..Len(started) :
                    ViewsAtLeast(searched[started[j]].views, searched[i].views)

(***************************************************************************)
(* Calls of CommentProcessor.clean_text and validate_comment               *)
(* (comment_processor.py lines 59-108) on texts made of fragments.         *)
(***************************************************************************)
MaxFragments == 4

\* a letter, a space, a newline, a control character, an emoji, a URL, a
\* word, a digit
Fragments ==
    { <<"a">>, <<" ">>, <<"\n">>, <<"^">>, <<"E">>,
      <<"h", "t", "t", "p", "s">>, <<"h", "o", "l", "a">>, <<"1">> }

RECURSIVE Concat(_)
Concat(fs) == IF fs = <<>> THEN <<>> ELSE Head(fs) \o Concat(Tail(fs))

FragmentTexts == {Concat(fs) : fs \in SeqsUpTo(Fragments, MaxFragments)}

\* texts around MAX_LENGTH: letters only; letters between doubled spaces;
\* digits with one letter past MAX_LENGTH; letters up to MAX_LENGTH exactly
LongTexts ==
    { SubSeq([i \in 1..(MAX_LENGTH + 1) |-> "a"], 1, MAX_LENGTH + 1),
      SubSeq([i \in 1..(2 * MAX_LENGTH) |-> IF i % 3 = 1 THEN "a" ELSE " "],
             1, 2 * MAX_LENGTH),
      SubSeq([i \in 1..(MAX_LENGTH + 1) |-> IF i > MAX_LENGTH THEN "a" ELSE "1"],
             1, MAX_LENGTH + 1),
      SubSeq([i \in 1..MAX_LENGTH |-> "a"], 1, MAX_LENGTH) }

InputLanguages == {None, "", "es", "en"}

\* clean_text(text)
TextClean ==
    /\ text_pc = "start"
    /\ cleaned_once' = clean_text(input_text)
    /\ text_pc' = "cleaned"
    /\ UNCHANGED <<input_text, input_language, cleaned_twice, validated, outsideText>>

\* clean_text of what clean_text returned
TextCleanAgain ==
    /\ text_pc = "cleaned"
    /\ cleaned_twice' = clean_text(cleaned_once)
    /\ text_pc' = "recleaned"
    /\ UNCHANGED <<input_text, input_language, cleaned_once, validated, outsideText>>

\* validate_comment(text, language)
TextValidate ==
    /\ text_pc = "recleaned"
    /\ validated' = validate_comment(input_text, input_language)
    /\ text_pc' = "validated"
    /\ UNCHANGED <<input_text, input_language, cleaned_once, cleaned_twice, outsideText>>

InitText ==
    /\ input_text \in FragmentTexts \cup LongTexts
    /\ input_language \in InputLanguages
    /\ text_pc = "start"
    /\ cleaned_once = <<>>
    /\ cleaned_twice = <<>>
    /\ validated = <<FALSE, None>>
    /\ ExtractIdle
    /\ ClientIdle
    /\ SearchIdle
    /\ ScrapeIdle
    /\ StatisticsIdle
    /\ BatchIdle

NextText == TextClean \/ TextCleanAgain \/ TextValidate

SpecText == InitText /\ [][NextText]_vars

\* C27 (as claimed): cleaning a cleaned text changes nothing.
C27_CleanIdempotent ==
    text_pc \in {"recleaned", "validated"} => cleaned_twice = cleaned_once

\* C28: a text whose cleaned form has fewer than 5 characters is not
\* accepted and no cleaned text comes back, whatever the language.
C28_ShortRejected ==
    (text_pc = "validated" /\ Len(cleaned_once) < 5) => validated = <<FALSE, None>>

\* C28 witness: four letters in Spanish were rejected.
C28_Witness ==
    /\ text_pc = "validated"
    /\ cleaned_once = <<"h", "o", "l", "a">>
    /\ input_language = "es"
    /\ validated = <<FALSE, None>>

\* C29: a text whose cleaned form has more than 5000 characters is accepted
\* exactly when the language is Spanish or not given and the first 5000
\* characters of the cleaned form hold a letter, and the text returned is
\* then those 5000 characters; no accepted text is longer than 5000.
C29_LongTruncated ==
    text_pc = "validated" =>
        /\ validated[1] => Len(validated[2]) <= 5000
        /\ Len(cleaned_once) > 5000 =>
             /\ validated[1] <=> /\ input_language \in {None, "", "es"}
                                 /\ HasLetter(SubSeq(cleaned_once, 1, 5000))
             /\ validated[1] => validated[2] = SubSeq(cleaned_once, 1, 5000)

\* C29 witness: a cleaned form of 6667 characters was accepted as its first
\* 5000.
C29_Witness ==
    /\ text_pc = "validated"
    /\ Len(cleaned_once) = 6667
    /\ validated[1]
    /\ Len(validated[2]) = 5000

(***************************************************************************)
(* SentimentAnalyzer.get_statistics (sentiment_service.py lines 235-282)   *)
(* Scores are counted in twentieths and confidences in hundredths.        *)
(***************************************************************************)
MaxResults == 4

\* LABEL_MAP and SIMPLIFIED_MAP (lines 24-39), keyed by the number of stars
LABEL_MAP == <<"very negative", "negative", "neutral", "positive", "very positive">>
SIMPLIFIED_MAP == <<"negative", "negative", "neutral", "positive", "positive">>

\* the index argmax gives over the five logits of the model, and the value
\* taken for the probability of each class, in hundredths
Classes == 0..4
Confidences == <<90, 60, 50, 60, 90>>

\* SentimentAnalyzer.analyze, lines 183-203: the dict built from the
\* predicted class; the score (label_num - 1) / 4.0 is counted in twentieths
analyze(predicted_class, use_simplified, confidence) ==
    LET label_num == predicted_class + 1
    IN  [sentiment |-> IF use_simplified THEN SIMPLIFIED_MAP[label_num]
                       ELSE LABEL_MAP[label_num],
         has_score |-> TRUE, score |-> (label_num - 1) * 5,
         has_confidence |-> TRUE, confidence |-> confidence]

\* the dict analyze_batch appends for a text that failed (lines 227-232):
\* sentiment None, score None, no 'confidence'
FailedEntry ==
    [sentiment |-> None, has_score |-> FALSE, score |-> 0,
     has_confidence |-> FALSE, confidence |-> 0]

\* the entries of the list analyze_batch returns in one mode (lines 220-233)
OutcomesOf(use_simplified) ==
    {analyze(k, use_simplified, Confidences[k + 1]) : k \in Classes}
        \cup {FailedEntry}
Outcomes == OutcomesOf(TRUE) \cup OutcomesOf(FALSE)

\* line 259: [r for r in results if r.get("sentiment")]
AllResults(rs) == rs
ValidResults(rs) == SelectSeq(rs, LAMBDA r : r.sentiment # None)

\* sum(1 for r in valid_results if r["sentiment"] == label)
CountOf(rs, label) == Len(SelectSeq(rs, LAMBDA r : r.sentiment = label))

RECURSIVE SumOf(_, _)
SumOf(rs, field) ==
    IF rs = <<>> THEN 0 ELSE Head(rs)[field] + SumOf(Tail(rs), field)

\* get_statistics(results): the dict it returns, or raised when np.mean
\* meets a None (line 269) or r["confidence"] a missing key (line 270)
get_statistics(rs) ==
    IF rs = <<>> THEN EmptyStatistics
    ELSE LET valid_results == ValidResults(rs)
             total == Len(valid_results)
             positive == CountOf(valid_results, "positive")
             negative == CountOf(valid_results, "negative")
             neutral == CountOf(valid_results, "neutral")
         IN  IF valid_results = <<>> THEN EmptyStatistics
             ELSE IF \E i \in 1..total : \/ ~valid_results[i].has_score
                                         \/ ~valid_results[i].has_confidence
                  THEN [EmptyStatistics EXCEPT !.raised = TRUE]
             ELSE [raised |-> FALSE, empty |-> FALSE, total |-> total,
                   positive_count |-> positive,
                   negative_count |-> negative,
                   neutral_count |-> neutral,
                   positive_pct |-> <<positive * 100, total>>,
                   negative_pct |-> <<negative * 100, total>>,
                   neutral_pct |-> <<neutral * 100, total>>,
                   avg_score |-> <<SumOf(valid_results, "score"), total>>,
                   avg_confidence |-> <<SumOf(valid_results, "confidence"), total>>]

\* the call of get_statistics
StatisticsCall ==
    /\ statistics_pc = "line235"
    /\ statistics' = get_statistics(input_results)
    /\ statistics_pc' = IF statistics'.raised THEN "raised" ELSE "returned"
    /\ UNCHANGED <<input_results, outsideStatistics>>

InitStatistics ==
    /\ input_results \in SeqsUpTo(OutcomesOf(TRUE), MaxResults)
                           \cup SeqsUpTo(OutcomesOf(FALSE), MaxResults)
    /\ statistics = EmptyStatistics
    /\ statistics_pc = "line235"
    /\ ExtractIdle
    /\ ClientIdle
    /\ SearchIdle
    /\ ScrapeIdle
    /\ TextIdle
    /\ BatchIdle

NextStatistics == StatisticsCall

SpecStatistics == InitStatistics /\ [][NextStatistics]_vars

\* the positions of the outcomes that have a sentiment
WithSentiment == {i \in 1..Len(input_results) : input_results[i].sentiment # None}

RECURSIVE SumOver(_, _)
SumOver(I, field) ==
    IF I = {} THEN 0
    ELSE LET i == CHOOSE k \in I : TRUE
         IN  input_results[i][field] + SumOver(I \ {i}, field)

\* C30: get_statistics does not raise; without an outcome that has a
\* sentiment (the empty list included) it returns the empty aggregate;
\* otherwise total, the counts and the averages are those of the outcomes
\* that have a sentiment, the others adding nothing.
C30_StatisticsOverValid ==
    /\ statistics_pc # "raised"
    /\ statistics_pc = "returned" =>
         IF WithSentiment = {} THEN statistics = EmptyStatistics
         ELSE /\ ~statistics.empty
              /\ statistics.total = Cardinality(WithSentiment)
              /\ \A label \in {"positive", "negative", "neutral"} :
                   statistics[label \o "_count"] =
                     Cardinality({i \in WithSentiment :
                                     input_results[i].sentiment = label})
              /\ statistics.avg_score =
                   <<SumOver(WithSentiment, "score"), Cardinality(WithSentiment)>>
              /\ statistics.avg_confidence =
                   <<SumOver(WithSentiment, "confidence"), Cardinality(WithSentiment)>>

\* C30 witness: two outcomes without sentiment gave the empty aggregate.
C30_Witness ==
    /\ statistics_pc = "returned"
    /\ Len(input_results) = 2
    /\ WithSentiment = {}
    /\ statistics = EmptyStatistics

\* the class of a label: the very positive and very negative outcomes of
\* 5-level analysis belong to the positive and negative classes
ClassOf(sentiment) ==
    CASE sentiment \in {"positive", "very positive"} -> "positive"
      [] sentiment \in {"negative", "very negative"} -> "negative"
      [] OTHER -> sentiment

\* C31 (as claimed): whenever get_statistics returns an aggregate, total is
\* the number of outcomes with a sentiment, the three counts add up to total,
\* and each count is the number of outcomes of its class.
C31_CountsPartitionTotal ==
    (statistics_pc = "returned" /\ ~statistics.empty) =>
        /\ statistics.total = Cardinality(WithSentiment)
        /\ statistics.positive_count + statistics.negative_count
              + statistics.neutral_count = statistics.total
        /\ \A label \in {"positive", "negative", "neutral"} :
              statistics[label \o "_count"] =
                Cardinality({i \in WithSentiment :
                                ClassOf(input_results[i].sentiment) = label})

\* what the code gives instead: the three counts add up to the number of
\* outcomes whose label is one of positive, negative and neutral
C31_CountsOfThreeLabels ==
    (statistics_pc = "returned" /\ ~statistics.empty) =>
        /\ statistics.total = Cardinality(WithSentiment)
        /\ statistics.positive_count + statistics.negative_count
              + statistics.neutral_count =
                Cardinality({i \in WithSentiment :
                                input_results[i].sentiment
                                    \in {"positive", "negative", "neutral"}})

(***************************************************************************)
(* Further properties of extract_comments                                  *)
(***************************************************************************)
\* the positions of the buffer whose comment got the default identifier
WithFallbackId == {i \in 1..Len(Buffer) : Buffer[i].comment_id[1] = "unknown"}

\* C34: the numbers of the default identifiers in the buffer increase
\* strictly in the order of admission, so no two comments share one.
C34_FallbackIdsIncrease ==
    \A i, j \in WithFallbackId :
        i < j => Buffer[i].comment_id[2] < Buffer[j].comment_id[2]

\* C34 witness: two comments without an identifier were admitted, with a
\* discarded item between them, and got unknown_0 and unknown_1.
C34_Witness ==
    /\ Len(Buffer) = 2
    /\ pos = 3
    /\ Buffer[1].comment_id = <<"unknown", 0>>
    /\ Buffer[2].comment_id = <<"unknown", 1>>

\* C37: once line 257 has set the flag, the buffer holds at most one comment
\* more than it held then, and the thread has taken at most one more item
\* from the source.
C37_OneMoreAfterFlag ==
    flagged_at # <<>> =>
        /\ Len(Buffer) <= flagged_at[1].len + 1
        /\ pos <= flagged_at[1].pos + 1

\* C37 witness: the flag was set while the thread was processing an item
\* (after its test of line 180); the thread appended that comment, took the
\* next item, saw the flag and ended.
C37_Witness ==
    /\ flagged_at # <<>>
    /\ Len(Buffer) = flagged_at[1].len + 1
    /\ pos = flagged_at[1].pos + 1
    /\ thread_pc = "finished"
    /\ ~ReachedLimit(comment_count, max_comments)

(***************************************************************************)
(* Further properties of scrape_search_results                             *)
(***************************************************************************)
\* the handler of line 316 has caught an exception of the top level
CriticalCaught == \E i \in 1..Len(stats.errors) : stats.errors[i] = CriticalError

\* C33 (as claimed): a run whose top level raised an exception outside the
\* handling of one video does not return to its caller: it ends by raising.
C33_CriticalPropagated ==
    CriticalCaught => scrape_pc # "returned"

\* what the code does: the exception is recorded in stats.errors and the run
\* returns the comments gathered so far, with end_time set
C33_CriticalSwallowed ==
    (CriticalCaught /\ scrape_pc \notin {"line322"}) =>
        /\ scrape_pc = "returned"
        /\ scrape_result = all_comments
        /\ stats.end_time # <<>>

\* the number of messages of stats.errors left by the handler of one video
VideoErrors ==
    Cardinality({i \in 1..Len(stats.errors) : stats.errors[i] # CriticalError})

\* C38 (as claimed): when the run returns, comments_extracted is the length
\* of the returned list, videos_processed plus the per-video errors is the
\* number of videos selected, and videos_processed is at most the smaller of
\* videos_found and max_videos.
C38_StatsMatchReturn ==
    scrape_pc = "returned" =>
        /\ stats.comments_extracted = Len(scrape_result)
        /\ stats.videos_processed + VideoErrors = Len(Slice(searched, max_videos))
        /\ stats.videos_processed <= Min(stats.videos_found, max_videos)

\* what holds of every return: comments_extracted is at least the length of
\* the returned list, and the videos taken are at most those selected
C38_StatsBoundReturn ==
    scrape_pc = "returned" =>
        /\ stats.comments_extracted >= Len(scrape_result)
        /\ stats.comments_extracted <= Len(scrape_result) + stats.videos_processed
        /\ stats.videos_processed + VideoErrors <= Len(Slice(searched, max_videos))
        /\ ScrapeCompleted =>
             stats.videos_processed + VideoErrors = Len(Slice(searched, max_videos))
        /\ stats.videos_processed <= Min(stats.videos_found, max_videos)

\* the number of comments of video v in the returned list
Contributed(v) ==
    Cardinality({j \in 1..Len(scrape_result) : scrape_result[j][1] = v})

\* C39 (as claimed): a video has at most max_comments_per_video comments in
\* the returned list.
C39_PerVideoLimit ==
    scrape_pc = "returned" =>
        \A v \in 1..Len(searched) : Contributed(v) <= max_comments_per_video

\* what the code gives: the limit is the self.max_comments of the constructor
C39_ConstructorLimit ==
    scrape_pc = "returned" =>
        \A v \in 1..Len(searched) : Contributed(v) <= max_comments

(***************************************************************************)
(* Further properties of analyze_sentiment                                 *)
(***************************************************************************)
\* C32 (as claimed): a call with an empty batch ends without a result, has
\* not gone through _fallback_analysis, and a POST it sent has left
\* is_healthy true.
C32_EmptyBatchRejected ==
    \A c \in Callers :
        (client_pc[c] = "done" /\ call[c].texts = 0) =>
            /\ result[c].status # "ok"
            /\ call[c].fallbacks = 0
            /\ call[c].posts = 1 => is_healthy

\* what the code does with an empty batch: it always goes through
\* _fallback_analysis, and a POST it sent has cleared is_healthy
C32_EmptyBatchFallsBack ==
    \A c \in Callers :
        (client_pc[c] = "done" /\ call[c].texts = 0) =>
            /\ call[c].fallbacks >= 1
            /\ call[c].post_reply # "200"
            /\ call[c].posts = 1 => ~is_healthy
            /\ result[c].status = "ok" =>
                  result[c] = [status |-> "ok", service |-> "local", outcomes |-> 0]

\* C35 (as claimed): a call sends at most one POST /analyze and runs the
\* local classifier on its batch at most once, and does not go through
\* _fallback_analysis after a 200.
C35_OnePostOneFallback ==
    \A c \in Callers :
        /\ call[c].posts <= 1
        /\ call[c].locals <= 1
        /\ call[c].post_reply = "200" => call[c].fallbacks = 0

\* what the code guarantees: one POST, no fallback after a 200, and a second
\* run of _fallback_analysis only after a status other than 200 whose first
\* run raised
C35_SecondFallbackOnlyInTry ==
    \A c \in Callers :
        /\ call[c].posts <= 1
        /\ call[c].fallbacks <= 2
        /\ call[c].locals <= call[c].fallbacks
        /\ call[c].post_reply = "200" => call[c].fallbacks = 0
        /\ call[c].fallbacks = 2 =>
              call[c].post_reply \in {"400", "500", "503"}

(***************************************************************************)
(* The result dict of analyze_sentiment, text by text: the remote service  *)
(* (sentiment-service/app.py), the local analyzer (sentiment_service.py)   *)
(* and the two places of sentiment_client.py that build the dict.  A text  *)
(* stands for what the models make of it: the class argmax picks and its   *)
(* probability.  Scores are counted in twentieths.                         *)
(***************************************************************************)
MaxTexts == 3

\* the texts of a batch: texts the model classifies, the empty string, and a
\* text on which the local analysis raises
Texts ==
    [kind : {"text"}, pred : Classes, conf : {90}]
        \cup {[kind |-> "empty", pred |-> 2, conf |-> 60],
              [kind |-> "raises", pred |-> 0, conf |-> 60]}

\* app.py line 85: f"{pred_idx + 1} stars"
Stars == <<"1 stars", "2 stars", "3 stars", "4 stars", "5 stars">>

\* ONNXSentimentAnalyzer.analyze_batch, app.py lines 70-93: the dict of one
\* text; the scores 0.25 * pred_idx and (pred_idx + 1) / 5.0 in twentieths
ONNXEntry(pred_idx, use_simplified, conf) ==
    IF use_simplified
    THEN IF pred_idx \in {0, 1}
         THEN [sentiment |-> "negative", score |-> 0 + pred_idx * 5, confidence |-> conf]
         ELSE IF pred_idx = 2
         THEN [sentiment |-> "neutral", score |-> 10, confidence |-> conf]
         ELSE [sentiment |-> "positive", score |-> 15 + (pred_idx - 3) * 5,
               confidence |-> conf]
    ELSE [sentiment |-> Stars[pred_idx + 1], score |-> (pred_idx + 1) * 4,
          confidence |-> conf]

ONNXResultsReversed(texts, use_simplified) ==
    [i \in 1..Len(texts) |->
        ONNXEntry(texts[Len(texts) + 1 - i].pred, use_simplified,
                  texts[Len(texts) + 1 - i].conf)]

\* app.py lines 69-95: one dict per text, in the order of the texts
ONNXResults(texts, use_simplified) ==
    [i \in 1..Len(texts) |-> ONNXEntry(texts[i].pred, use_simplified, texts[i].conf)]

\* POST /analyze, app.py lines 146-169: the status and the body of the answer
AnalyzeResponse(texts, use_simplified) ==
    IF texts = <<>> THEN [status |-> "400"]
    ELSE LET results == ONNXResults(texts, use_simplified)
         IN  [status |-> "200",
              sentiments |-> [i \in 1..Len(results) |-> results[i].sentiment],
              scores |-> [i \in 1..Len(results) |-> results[i].score],
              confidences |-> [i \in 1..Len(results) |-> results[i].confidence]]

\* SentimentAnalyzer.analyze (sentiment_service.py lines 109-207) on one text:
\* the dict of an invalid text (lines 111-120), the dict of the predicted
\* class, or the exception, for which analyze_batch appends the failure entry
LocalEntry(text, use_simplified) ==
    CASE text.kind = "empty" ->
           [sentiment |-> "neutral", has_score |-> TRUE, score |-> 10,
            has_confidence |-> TRUE, confidence |-> 0]
      [] text.kind = "raises" -> FailedEntry
      [] OTHER -> analyze(text.pred, use_simplified, text.conf)

\* SentimentAnalyzer.analyze_batch (lines 220-233): one entry per text
LocalResults(texts, use_simplified) ==
    [i \in 1..Len(texts) |-> LocalEntry(texts[i], use_simplified)]

BatchRaised == [NoBatchResult EXCEPT !.status = "raised"]

\* sentiment_client.py lines 95-102: the dict built from a 200 answer
RemoteDict(data) ==
    [status |-> "ok", service |-> "remote", sentiments |-> data.sentiments,
     scores |-> data.scores, confidences |-> data.confidences]

\* _fallback_analysis, lines 133-143: the dict built from the local results;
\* r["confidence"] raises KeyError on the failure entry
LocalDict(texts, use_simplified) ==
    LET results == LocalResults(texts, use_simplified)
    IN  IF \E i \in 1..Len(results) : ~results[i].has_confidence
        THEN BatchRaised
        ELSE [status |-> "ok", service |-> "local",
              sentiments |-> [i \in 1..Len(results) |-> results[i].sentiment],
              scores |-> [i \in 1..Len(results) |-> results[i].score],
              confidences |-> [i \in 1..Len(results) |-> results[i].confidence]]

\* lines 83-102: the service is healthy, the batch is posted and answered
BatchPosted ==
    /\ batch_pc = "line83"
    /\ LET response == AnalyzeResponse(input_texts, input_simplified)
       IN  IF response.status = "200"
           THEN /\ batch_result' = RemoteDict(response)
                /\ batch_pc' = "returned"
           ELSE /\ batch_pc' = "line106"
                /\ UNCHANGED batch_result
    /\ UNCHANGED <<input_texts, input_simplified, outsideBatch>>

\* lines 83, 108-118: the service is not healthy, or the request fails
BatchNotAnswered ==
    /\ batch_pc = "line83"
    /\ batch_pc' = "line118"
    /\ UNCHANGED <<input_texts, input_simplified, batch_result, outsideBatch>>

\* lines 120-143 with the fallback enabled: the local analyzer runs
BatchFallback ==
    /\ batch_pc \in {"line106", "line118"}
    /\ batch_result' = LocalDict(input_texts, input_simplified)
    /\ batch_pc' = IF batch_result'.status = "raised" THEN "raised" ELSE "returned"
    /\ UNCHANGED <<input_texts, input_simplified, outsideBatch>>

InitBatch ==
    /\ input_texts \in SeqsUpTo(Texts, MaxTexts)
    /\ input_simplified \in BOOLEAN
    /\ batch_pc = "line83"
    /\ batch_result = NoBatchResult
    /\ ExtractIdle
    /\ ClientIdle
    /\ SearchIdle
    /\ ScrapeIdle
    /\ TextIdle
    /\ StatisticsIdle

NextBatch == BatchPosted \/ BatchNotAnswered \/ BatchFallback

SpecBatch == InitBatch /\ [][NextBatch]_vars

\* the label and the score of text i by the code that produced the dict
Expected(i) ==
    IF batch_result.service = "remote"
    THEN ONNXEntry(input_texts[i].pred, input_simplified, input_texts[i].conf)
    ELSE LocalEntry(input_texts[i], input_simplified)

\* C36: a dict analyze_sentiment returns has three lists as long as the
\* batch, and position i holds the sentiment, score and confidence of text i.
C36_OneOutcomePerText ==
    batch_pc = "returned" =>
        /\ batch_result.service \in {"remote", "local"}
        /\ Len(batch_result.sentiments) = Len(input_texts)
        /\ Len(batch_result.scores) = Len(input_texts)
        /\ Len(batch_result.confidences) = Len(input_texts)
        /\ \A i \in 1..Len(input_texts) :
              /\ batch_result.sentiments[i] = Expected(i).sentiment
              /\ batch_result.scores[i] = Expected(i).score
              /\ batch_result.confidences[i] = Expected(i).confidence

\* C36 witness: a remote dict for three texts of classes 5, 1 and 3 stars.
C36_Witness ==
    /\ batch_pc = "returned"
    /\ batch_result.service = "remote"
    /\ input_simplified
    /\ Len(input_texts) = 3
    /\ batch_result.sentiments = <<"positive", "negative", "neutral">>
    /\ batch_result.scores = <<20, 0, 10>>

\* C40 (as claimed): for a text the model classifies, the label and the score
\* in the dict are those the local analyzer gives to the predicted class,
\* whether the dict is remote or local, and the score lies between 0 and 1.
C40_SameLabelAndScore ==
    batch_pc = "returned" =>
        \A i \in 1..Len(input_texts) :
            input_texts[i].kind = "text" =>
                /\ batch_result.sentiments[i] =
                     analyze(input_texts[i].pred, input_simplified, 0).sentiment
                /\ batch_result.scores[i] =
                     analyze(input_texts[i].pred, input_simplified, 0).score
                /\ batch_result.scores[i] \in 0..20

\* what the code gives: the two agree in simplified mode, and every score
\* lies between 0 and 1 in both modes
C40_SameWhenSimplified ==
    batch_pc = "returned" =>
        \A i \in 1..Len(input_texts) :
            /\ batch_result.scores[i] \in 0..20
            /\ (input_simplified /\ input_texts[i].kind = "text") =>
                 /\ batch_result.sentiments[i] =
                      analyze(input_texts[i].pred, TRUE, 0).sentiment
                 /\ batch_result.scores[i] =
                      analyze(input_texts[i].pred, TRUE, 0).score

====
